---- MODULE Spec2Model ----
(***************************************************************************)
(* Row-processing pipelines of the NoBBQ tools: a spreadsheet is loaded,   *)
(* every row whose input is present and whose output is still blank is     *)
(* sent to a remote text-generation API, the reply is written into the     *)
(* output column and the table is saved to a new file.                     *)
(*                                                                         *)
(* Seven scripts are modelled; `script` selects the one that is running:   *)
(*   batch     tools/Automated scoring/excel_classify_to_openai.py         *)
(*   gemini25  tools/API calls to get responses/excel_prompts_to_answers_gemini.py *)
(*   gemini15  tools/excel_prompts_to_answers_gemini.py                    *)
(*   gpt4o     tools/API calls to get responses/excel_prompts_to_answers_gpt4o.py *)
(*   ollama    tools/API calls to get responses/excel_prompts_to_open_ended_ollama_chat.py *)
(*   translate tools/Data prep/excel_translate_columns_openai.py           *)
(*   classify  tools/excel_classify_to_openai.py                           *)
(*                                                                         *)
(* A text is a sequence of lexemes: the whitespace lexeme SP and word      *)
(* lexemes.  Two adjacent word lexemes stand for two words separated by a  *)
(* non-word, non-space character, so a word boundary lies between them.    *)
(* The remote API is the environment: every call nondeterministically      *)
(* returns one of a few responses or raises one of a few errors.  A        *)
(* keyboard interrupt may arrive wherever the program blocks or loops.     *)
(***************************************************************************)
EXTENDS Integers, Sequences, FiniteSets, TLC

\* ------------------------------------------------------------------ bounds
\* rows of the sheet for the two-column scripts
MaxRows == 2
\* rows of the sheet for the translation script (six columns per row)
TransRows == 1
\* lines in a combined batch response
MaxLines == 2
\* resolution of the backoff jitter: time is counted in 1/JitterDen seconds
JitterDen == 2

\* ------------------------------------------------------- program constants
\* retries: int = 6
DefaultRetries == 6
\* wait = min(wait, 30.0)
BackoffCap == 30
\* stop=stop_after_attempt(5)
StopAfterAttempt == 5

\* ----------------------------------------------------------------- scripts
Scripts == {"batch", "gemini25", "gemini15", "gpt4o", "ollama", "translate", "classify"}

\* ------------------------------------------------------------------- texts
SP == " "
\* the missing value pandas reads from an empty spreadsheet cell
NaN == <<"NaN">>

\* pd.isna(val)
isna(v) == v = NaN

\* str(val): a missing value prints as "nan", a text is itself
str(v) == IF isna(v) THEN <<"nan">> ELSE v

RECURSIVE lstrip(_)
lstrip(s) == IF s # <<>> /\ Head(s) = SP THEN lstrip(Tail(s)) ELSE s

RECURSIVE rstrip(_)
rstrip(s) ==
    IF s # <<>> /\ s[Len(s)] = SP THEN rstrip(SubSeq(s, 1, Len(s) - 1)) ELSE s

\* str.strip(): leading and trailing whitespace removed
strip(s) == rstrip(lstrip(s))

\* mutant: the blank test without the trimming
BlankInput_NoStrip(v) == isna(v) \/ str(v) = <<>>

\* `pd.isna(val) or not str(val).strip()`: the input is missing or blank
BlankInput(v) == isna(v) \/ strip(str(v)) = <<>>

\* mutant: the resume test takes the exhaustion sentinel for no content
AlreadyFilled_NotSentinel(v) ==
    /\ ~isna(v)
    /\ strip(str(v)) # <<>>
    /\ v # <<"ERROR: too many retries due to rate limits">>

\* `not pd.isna(x) and str(x).strip()`: the output cell already has content
AlreadyFilled(v) == ~isna(v) /\ strip(str(v)) # <<>>

\* str.lower() of one lexeme
lowerTok(t) ==
    CASE t = "Quota" -> "quota"
      [] t = "ANS1" -> "ans1"
      [] OTHER -> t

\* str.lower()
lower(s) == [i \in 1..Len(s) |-> lowerTok(s[i])]

\* the marker substrings that occur in one (lower-case) lexeme
MarkersOf(t) ==
    CASE t = "429" -> {"429"}
      [] t = "quota" -> {"quota"}
      [] t = "blocked" -> {"blocked"}
      [] t = "generate_content" -> {"rate"}
      [] t = "timeout" -> {"timeout"}
      [] OTHER -> {}

\* `marker in msg`
Contains(msg, marker) == \E i \in 1..Len(msg) : marker \in MarkersOf(msg[i])

\* f"ERROR: {e}"
ErrorMarker(e) == <<"ERROR:", SP>> \o e

EmptyResponse == <<"(empty response)">>
Blocked == <<"(blocked)">>
TooManyRetries == <<"ERROR: too many retries due to rate limits">>
\* ValueError("Empty response from model")
EmptyFromModel == <<"Empty response from model">>

\* ------------------------------------------------------------ environment
\* values of an input cell as loaded: missing, whitespace only, a text
InVals == {NaN, <<SP>>, <<SP, "q", SP>>}
\* values of an output cell as loaded: missing, whitespace only, an earlier result
OutVals == {NaN, <<SP>>, <<"prior">>}

\* what the remote API hands back: the response's text attribute and the
\* joined text parts the adapters fall back to when that attribute is empty
Responses ==
    { [text |-> <<>>, parts |-> <<>>],
      [text |-> <<>>, parts |-> <<"ans0", SP>>],
      [text |-> <<SP>>, parts |-> <<>>],
      [text |-> <<SP, "x", "ANS1">>, parts |-> <<>>] }

\* messages of the errors the remote call raises
Msgs ==
    { <<"429", "Quota">>,
      <<"blocked">>,
      <<"generate_content", "blocked">>,
      <<"timeout">>,
      <<"boom">> }

\* the messages tried per script: all of them where a wrapper reads the
\* message, two where the message is only recorded
MsgsFor(s) ==
    IF s \in {"gemini25", "classify"} THEN Msgs ELSE {<<"timeout">>, <<"boom">>}

\* ----------------------------------------------------------- table layout
\* input columns of a row: A-C for the translation script, A otherwise
NIn(s) == IF s = "translate" THEN 3 ELSE 1

\* `while df.shape[1] < 6` / `if df.shape[1] < 2`: columns after padding
NCols(s) == 2 * NIn(s)

NRows(s) == IF s = "translate" THEN TransRows ELSE MaxRows

\* zip([0, 1, 2], [3, 4, 5]); column B for the other scripts
ColOut(s, c) == c + NIn(s)

\* one row as read from a sheet of `w` columns; the missing columns are
\* created holding "" (df.insert(1, ..., "") / df[f"Col{n}"] = "")
RowsOfWidth(s, w) ==
    { [c \in 0..(NCols(s) - 1) |->
          IF c >= w THEN <<>>
          ELSE IF c < NIn(s) THEN i[c] ELSE o[c - NIn(s)]] :
        i \in [0..(NIn(s) - 1) -> InVals], o \in [0..(NIn(s) - 1) -> OutVals] }

\* the tables pd.read_excel plus the column padding can produce
Tables(s) ==
    UNION { [0..(NRows(s) - 1) -> RowsOfWidth(s, w)] : w \in 1..NCols(s) }

Positions(s) == (0..(NRows(s) - 1)) \X (0..(NIn(s) - 1))

\* ------------------------------------------------------- remote adapters
\* `\bans\d+\b`, case-insensitive, on one lexeme
IsLabel(t) == lowerTok(t) \in {"ans0", "ans1", "ans2"}

\* LABEL_RE.search(text): the first label lexeme, <<>> when there is none
RECURSIVE LabelSearch(_)
LabelSearch(s) ==
    IF s = <<>> THEN <<>>
    ELSE IF IsLabel(Head(s)) THEN <<Head(s)>> ELSE LabelSearch(Tail(s))

\* `m.group(0).lower() if m else label.strip()`
CleanLabel(s) == IF LabelSearch(s) # <<>> THEN lower(LabelSearch(s)) ELSE strip(s)

\* call_gemini_safe, the try body: resp.text when present, else the joined
\* parts, else "(empty response)"
GeminiSafeText(resp) ==
    IF resp.text # <<>> THEN strip(resp.text)
    ELSE IF strip(resp.parts) # <<>> THEN strip(resp.parts) ELSE EmptyResponse

\* call_gemini / call_openai (gpt4o) / translate_text: output text when
\* present, else the joined pieces, stripped
PlainText(resp) ==
    IF resp.text # <<>> THEN strip(resp.text) ELSE strip(resp.parts)

\* call_ollama_chat: the message content, stripped
OllamaText(resp) == strip(resp.text)

\* call_openai_strict_label, the try body before the emptiness test
StrictOutputText(resp) ==
    IF resp.text # <<>> THEN resp.text ELSE strip(resp.parts)

\* the text a successful remote call yields in script s
AdapterText(s, resp) ==
    CASE s = "gemini25" -> GeminiSafeText(resp)
      [] s = "ollama" -> OllamaText(resp)
      [] s = "classify" -> strip(StrictOutputText(resp))
      [] OTHER -> PlainText(resp)

\* the value main writes into the output cell for the text the call returned
CellFor(s, answer) ==
    CASE s \in {"gemini25", "gemini15", "ollama"} ->
            IF answer # <<>> THEN answer ELSE EmptyResponse
      [] s = "classify" -> CleanLabel(answer)
      [] OTHER -> answer

\* call_gemini_safe: rate limit / quota / busy
GeminiTransient(msg) ==
    \/ Contains(lower(msg), "429")
    \/ Contains(lower(msg), "rate")
    \/ Contains(lower(msg), "quota")
    \/ Contains(lower(msg), "resource exhausted")

\* call_gemini_safe: safety blocks
GeminiSafety(msg) ==
    Contains(lower(msg), "safety") \/ Contains(lower(msg), "blocked")

\* mutant: every error is retried
StrictTransient_Any(msg) == msg = msg

\* call_openai_strict_label: the terms that make an error transient
StrictTransient(msg) ==
    \E term \in {"rate limit", "timeout", "temporar", "try again",
                 "overloaded", "502", "503", "504"} :
        Contains(lower(msg), term)

RECURSIVE Pow2(_)
Pow2(n) == IF n = 0 THEN 1 ELSE 2 * Pow2(n - 1)

Min(a, b) == IF a <= b THEN a ELSE b

\* mutant: the backoff without its cap
BackoffWait_NoCap(att, j) == Pow2(att) * JitterDen + j

\* wait = min((2 ** attempt) + random.uniform(0.0, 1.0), 30.0), in units of
\* 1/JitterDen seconds; j is the jitter drawn
BackoffWait(att, j) == Min(Pow2(att) * JitterDen + j, BackoffCap * JitterDen)

\* mutant: the GPT-4o script without its resume test
HasResume_NotGpt4o(s) == s \notin {"classify", "gpt4o"}

\* the scripts that skip a row whose output cell is already filled
HasResume(s) == s # "classify"

\* the scripts that sleep after a dispatched row; the single-row classifier
\* sleeps only after an error, Ollama's --sleep-each defaults to 0
Paces(s, errored) ==
    CASE s = "ollama" -> FALSE
      [] s = "classify" -> errored
      [] OTHER -> TRUE

\* mutant: Gemini 2.5 main with the inner `except KeyboardInterrupt` only
Gemini25InterruptSaves_InnerOnly(at) == at \in {"call", "backoff"}

\* Gemini 2.5 main: the whole loop sits in try/finally, the save is the
\* finally block
Gemini25InterruptSaves(at) == at \in {"loop", "call", "backoff", "pace", "pause"}

\* Gemini 1.5 main: `except KeyboardInterrupt: break` guards the loop body,
\* the `for` header is outside it
Gemini15InterruptSaves(at) == at \in {"call", "pace"}

\* where a KeyboardInterrupt leads: TRUE when the script reaches its save
\* step; the other scripts have no handler (`except Exception` does not
\* catch it)
InterruptSaves(s, at) ==
    CASE s = "gemini25" -> Gemini25InterruptSaves(at)
      [] s = "gemini15" -> Gemini15InterruptSaves(at)
      [] OTHER -> FALSE

\* ------------------------------------------------------------------ state
VARIABLES
    script,       \* the script that is running
    df,           \* the in-memory table: row -> column -> cell
    loaded,       \* the table as it was after loading (this run)
    saved,        \* <<>> until the output file is written, then <<table>>
    prior,        \* how the previous run over this table ended: none/complete/interrupted
    pc,           \* where the run is: loop/call/backoff/pace/pause, bcall/fcall/apply, done/aborted
    idx,          \* row index of the per-row loop
    col,          \* input column of the per-row loop (0 unless translating)
    attempt,      \* attempts finished in the retry wrapper for this row
    wait,         \* the backoff sleep in progress (0 when none)
    processed,    \* Gemini 2.5: the progress counter
    pause_every,  \* Gemini 2.5: --pause-every
    calls,        \* remote calls made in this run
    called,       \* the positions a single-row remote call was made for in this run
    rowcalls,     \* remote calls made for the row in hand
    fails,        \* transient failures the retry wrapper saw for the row in hand
    outcome,      \* how the wrapper call of the row in hand (batch script: the chunk) ended
    err,          \* message of the error the last remote call of the row in hand raised
    intr,         \* "none", or where the run was when the interrupt arrived
    batch_size,   \* batch script: --batch-size
    tasks,        \* batch script: the collected tasks, in row order
    start,        \* batch script: offset in tasks of the chunk in hand
    parsed,       \* batch script: classify_batch's result dict, in insertion order
    fpos,         \* batch script: position in the chunk of the fallback loop
    first,        \* batch script: the row ids parsed from the combined response
    fallbacks,    \* batch script: rows of the fallback calls made for the chunk, in order
    ltext,        \* label extraction on its own: the text handed to the extractors
    lret,         \* label extraction on its own: extractor name -> the list it returned
    excel_path,   \* output path on its own: the path given on the command line
    out_path,     \* output path on its own: the path the save step computed (<<>>: not yet)
    paused_at     \* Gemini 2.5: value of the progress counter at the last long pause (0: none yet)

rowvars == <<idx, col, attempt, wait, processed, rowcalls, fails, outcome, err>>
batchvars == <<batch_size, tasks, start, parsed, fpos, first, fallbacks>>
vars == <<script, df, loaded, saved, prior, pc, idx, col, attempt, wait, processed,
          pause_every, calls, called, rowcalls, fails, outcome, err, intr,
          batch_size, tasks, start, parsed, fpos, first, fallbacks, ltext, lret,
          excel_path, out_path, paused_at>>
purevars == <<ltext, lret, excel_path, out_path>>

\* ------------------------------------------------------------- batch size
\* largest --batch-size tried
MaxBatch == 2

\* --pause-every values tried (0 switches the long pause off)
PauseEveryArgs == {0, 1, MaxRows}

\* the state a run starts in, right after the table is loaded and padded
StartRun(s, table) ==
    /\ df = table
    /\ loaded = table
    /\ saved = <<>>
    /\ pc = IF s = "batch" THEN "collect" ELSE "loop"
    /\ idx = 0
    /\ col = 0
    /\ attempt = 0
    /\ wait = 0
    /\ processed = 0
    /\ calls = 0
    /\ called = {}
    /\ rowcalls = 0
    /\ fails = 0
    /\ outcome = "none"
    /\ err = <<>>
    /\ intr = "none"
    /\ tasks = <<>>
    /\ start = 0
    /\ parsed = <<>>
    /\ fpos = 0
    /\ first = {}
    /\ fallbacks = <<>>
    /\ paused_at = 0

Init ==
    /\ script \in Scripts
    /\ prior = "none"
    /\ pause_every \in (IF script = "gemini25" THEN PauseEveryArgs ELSE {0})
    /\ batch_size \in (IF script = "batch" THEN 1..MaxBatch ELSE {0})
    /\ \E table \in Tables(script) : StartRun(script, table)
    /\ ltext = <<>>
    /\ lret = <<>>
    /\ excel_path = <<>>
    /\ out_path = <<>>

\* ------------------------------------------------------- per-row scripts
RowScripts == Scripts \ {"batch"}

pos == <<idx, col>>

\* the loop position after the one in hand: the next column pair, then the
\* next row
AdvanceIdx == IF col + 1 < NIn(script) THEN idx ELSE idx + 1
AdvanceCol == IF col + 1 < NIn(script) THEN col + 1 ELSE 0

\* df.iat[r, c] = v
SetCell(table, r, c, v) == [table EXCEPT ![r][c] = v]

\* the loop header and the two skip tests of one iteration: a blank input
\* or (where the script resumes) a filled output cell goes on to the next
\* position without a call; otherwise the remote call is started
NextRow ==
    /\ script \in RowScripts
    /\ pc = "loop"
    /\ idx < NRows(script)
    /\ processed' = IF script = "gemini25" THEN processed + 1 ELSE processed
    /\ IF \/ BlankInput(df[idx][col])
          \/ HasResume(script) /\ AlreadyFilled(df[idx][ColOut(script, col)])
       THEN /\ idx' = AdvanceIdx
            /\ col' = AdvanceCol
            /\ pc' = "loop"
       ELSE /\ pc' = "call"
            /\ UNCHANGED <<idx, col>>
    /\ UNCHANGED <<purevars, paused_at, script, df, loaded, saved, prior, pause_every, calls, called,
                   attempt, wait, rowcalls, fails, outcome, err, intr>>
    /\ UNCHANGED batchvars

\* the wrapper's and main's per-row locals go out of scope
ForgetRow ==
    /\ attempt' = 0
    /\ wait' = 0
    /\ rowcalls' = 0
    /\ fails' = 0
    /\ outcome' = "none"
    /\ err' = <<>>

\* the wrapper call of the row in hand is over after n remote calls, the last
\* of which raised e (<<>>: none), and main writes v into the row's output
\* cell; then the pacing sleep, or straight on to the next position
WriteResult(v, how, errored, n, e) ==
    /\ df' = SetCell(df, idx, ColOut(script, col), v)
    /\ IF Paces(script, errored)
       THEN /\ pc' = "pace"
            /\ outcome' = how
            /\ rowcalls' = n
            /\ err' = e
            /\ attempt' = 0
            /\ wait' = 0
            /\ UNCHANGED <<idx, col, fails>>
       ELSE /\ pc' = "loop"
            /\ idx' = AdvanceIdx
            /\ col' = AdvanceCol
            /\ ForgetRow

\* the remote call of the row in hand raised an error with message msg:
\* what the retry wrapper (where there is one) and main's handler do with it
HandleError(msg) ==
    CASE script = "gemini25" ->
            IF GeminiTransient(msg)
            THEN \* sleep, then `continue` with the next attempt
                 /\ \E j \in 0..JitterDen : wait' = BackoffWait(attempt, j)
                 /\ pc' = "backoff"
                 /\ fails' = fails + 1
                 /\ rowcalls' = rowcalls + 1
                 /\ err' = msg
                 /\ UNCHANGED <<df, idx, col, outcome, attempt>>
            ELSE IF GeminiSafety(msg)
            THEN WriteResult(CellFor(script, Blocked), "blocked", FALSE, rowcalls + 1, msg)
            ELSE WriteResult(ErrorMarker(msg), "raised", TRUE, rowcalls + 1, msg)
      [] script = "classify" ->
            IF StrictTransient(msg) /\ attempt + 1 < StopAfterAttempt
            THEN \* TransientOpenAIError: tenacity sleeps and calls again
                 /\ pc' = "backoff"
                 /\ fails' = fails + 1
                 /\ rowcalls' = rowcalls + 1
                 /\ err' = msg
                 /\ UNCHANGED <<df, idx, col, outcome, attempt, wait>>
            ELSE \* re-raised to main, which records it
                 WriteResult(ErrorMarker(msg), "raised", TRUE, rowcalls + 1, msg)
      [] OTHER -> WriteResult(ErrorMarker(msg), "raised", TRUE, rowcalls + 1, msg)

CountCall ==
    /\ calls' = calls + 1
    /\ called' = called \cup {pos}

\* the remote call of the row in hand returns a response
CallReturns ==
    /\ script \in RowScripts
    /\ pc = "call"
    /\ CountCall
    /\ \E resp \in Responses :
        IF script = "classify" /\ StrictOutputText(resp) = <<>>
        THEN \* raise ValueError("Empty response from model")
             HandleError(EmptyFromModel)
        ELSE WriteResult(CellFor(script, AdapterText(script, resp)), "answer",
                         FALSE, rowcalls + 1, <<>>)
    /\ UNCHANGED <<purevars, paused_at, script, loaded, saved, prior, pause_every, processed, intr>>
    /\ UNCHANGED batchvars

\* the remote call of the row in hand raises an error
CallRaises ==
    /\ script \in RowScripts
    /\ pc = "call"
    /\ CountCall
    /\ \E msg \in MsgsFor(script) : HandleError(msg)
    /\ UNCHANGED <<purevars, paused_at, script, loaded, saved, prior, pause_every, processed, intr>>
    /\ UNCHANGED batchvars

\* the backoff sleep ends: the next attempt, or (call_gemini_safe, after the
\* last attempt) the exhaustion sentinel is returned and written
BackoffDone ==
    /\ script \in RowScripts
    /\ pc = "backoff"
    /\ IF script = "gemini25" /\ attempt + 1 >= DefaultRetries
       THEN WriteResult(CellFor(script, TooManyRetries), "exhausted", FALSE, rowcalls, err)
       ELSE /\ pc' = "call"
            /\ attempt' = attempt + 1
            /\ UNCHANGED <<df, idx, col, outcome, wait, rowcalls, fails, err>>
    /\ UNCHANGED <<purevars, paused_at, script, loaded, saved, prior, pause_every, processed, intr,
                   calls, called>>
    /\ UNCHANGED batchvars

\* `args.pause_every > 0 and processed % args.pause_every == 0`
PauseDue == pause_every > 0 /\ processed % pause_every = 0

\* the pacing sleep after a dispatched row ends
PaceDone ==
    /\ script \in RowScripts
    /\ pc = "pace"
    /\ IF script = "gemini25" /\ PauseDue
       THEN /\ pc' = "pause"
            /\ paused_at' = processed
            /\ UNCHANGED <<idx, col, attempt, wait, rowcalls, fails, outcome, err>>
       ELSE /\ pc' = "loop"
            /\ idx' = AdvanceIdx
            /\ col' = AdvanceCol
            /\ ForgetRow
            /\ UNCHANGED paused_at
    /\ UNCHANGED <<purevars, script, df, loaded, saved, prior, pause_every, processed, intr,
                   calls, called>>
    /\ UNCHANGED batchvars

\* Gemini 2.5: the long pause ends
PauseDone ==
    /\ script = "gemini25"
    /\ pc = "pause"
    /\ pc' = "loop"
    /\ idx' = AdvanceIdx
    /\ col' = AdvanceCol
    /\ ForgetRow
    /\ UNCHANGED <<purevars, paused_at, script, df, loaded, saved, prior, pause_every, processed, intr,
                   calls, called>>
    /\ UNCHANGED batchvars

\* the loop is exhausted: the table is written to the output file
SaveRows ==
    /\ script \in RowScripts
    /\ pc = "loop"
    /\ idx >= NRows(script)
    /\ saved' = <<df>>
    /\ pc' = "done"
    /\ UNCHANGED <<purevars, paused_at, script, df, loaded, prior, pause_every, calls, called, intr>>
    /\ UNCHANGED rowvars
    /\ UNCHANGED batchvars

\* where the run can be when a keyboard interrupt arrives
Interruptible ==
    {"loop", "call", "backoff", "pace", "pause", "batches", "bcall", "fcall", "bsleep"}

\* a KeyboardInterrupt arrives: the scripts that catch it (or save in a
\* finally block) leave the loop and save, the others end with the traceback
Interrupt ==
    /\ pc \in Interruptible
    /\ intr = "none"
    /\ intr' = pc
    /\ IF InterruptSaves(script, pc)
       THEN saved' = <<df>> /\ pc' = "done"
       ELSE saved' = saved /\ pc' = "aborted"
    /\ UNCHANGED <<purevars, paused_at, script, df, loaded, prior, pause_every, calls, called>>
    /\ UNCHANGED rowvars
    /\ UNCHANGED batchvars

\* a script that resumes is run again on the file it saved
Rerun ==
    /\ HasResume(script)
    /\ pc = "done"
    /\ prior = "none"
    /\ prior' = IF intr = "none" THEN "complete" ELSE "interrupted"
    /\ df' = saved[1]
    /\ loaded' = saved[1]
    /\ saved' = <<>>
    /\ pc' = IF script = "batch" THEN "collect" ELSE "loop"
    /\ idx' = 0
    /\ col' = 0
    /\ attempt' = 0
    /\ wait' = 0
    /\ processed' = 0
    /\ calls' = 0
    /\ called' = {}
    /\ rowcalls' = 0
    /\ fails' = 0
    /\ outcome' = "none"
    /\ err' = <<>>
    /\ intr' = "none"
    /\ tasks' = <<>>
    /\ start' = 0
    /\ parsed' = <<>>
    /\ fpos' = 0
    /\ first' = {}
    /\ fallbacks' = <<>>
    /\ paused_at' = 0
    /\ UNCHANGED <<purevars, script, pause_every, batch_size>>

\* ---------------------------------------------------------- batch script
\* LABEL_RE.findall(text): the label lexemes of the text, in order
findall(s) == SelectSeq(s, IsLabel)

\* mutant: the loop without the `seen` test
Ordered_NoSeen(labels, ordered) ==
    ordered \o [i \in 1..Len(labels) |-> lowerTok(labels[i])]

\* extract_labels, the loop: lower-cased, first occurrences only
RECURSIVE Ordered(_, _)
Ordered(labels, ordered) ==
    IF labels = <<>> THEN ordered
    ELSE LET lab == lowerTok(Head(labels))
         IN  IF \E i \in 1..Len(ordered) : ordered[i] = lab
             THEN Ordered(Tail(labels), ordered)
             ELSE Ordered(Tail(labels), Append(ordered, lab))

\* extract_labels: `ordered or ["ans0", "ans1", "ans2"]`
extract_labels(text) ==
    IF Ordered(findall(text), <<>>) # <<>>
    THEN Ordered(findall(text), <<>>)
    ELSE <<"ans0", "ans1", "ans2">>

\* the task collection loop of __main__, rows r.. of the table: a row with
\* column A filled and column B blank becomes a task
RECURSIVE CollectTasks(_, _)
CollectTasks(table, r) ==
    IF r >= NRows("batch") THEN <<>>
    ELSE IF \/ BlankInput(table[r][0])
            \/ AlreadyFilled(table[r][1])
         THEN CollectTasks(table, r + 1)
         ELSE <<[ridx |-> r,
                 text |-> strip(str(table[r][0])),
                 labels |-> extract_labels(strip(str(table[r][0])))]>>
              \o CollectTasks(table, r + 1)

\* chunked(tasks, size): the chunk that starts at offset i
Chunk(seq, i, size) == SubSeq(seq, i + 1, Min(i + size, Len(seq)))

\* the lexemes a response line `ID=<n> <lexeme>` can carry
LineToks == {"ans0", "ANS1", "maybe"}

\* the lines of a combined response: `ID=<id> <tok>`; ids beyond the
\* sheet's last row included
Lines == [id : 0..MaxRows, tok : LineToks]

\* the combined responses tried: up to MaxLines lines
BatchOuts == UNION { [1..n -> Lines] : n \in 0..MaxLines }

\* ridx in parsed
HasKey(d, k) == \E i \in 1..Len(d) : d[i][1] = k

\* parsed[k] = v on a dict kept in insertion order
DictSet(d, k, v) ==
    IF HasKey(d, k)
    THEN [i \in 1..Len(d) |-> IF d[i][1] = k THEN <<k, v>> ELSE d[i]]
    ELSE Append(d, <<k, v>>)

\* LINE_RE.match(line): the lexeme after the id must be a label
LineMatches(line) == IsLabel(line.tok)

\* parse_batch_output: every matching line sets results[id] to the
\* lower-cased label, other lines are dropped
RECURSIVE parse_batch_output(_, _)
parse_batch_output(lines, results) ==
    IF lines = <<>> THEN results
    ELSE parse_batch_output(
             Tail(lines),
             IF LineMatches(Head(lines))
             THEN DictSet(results, Head(lines).id, <<lowerTok(Head(lines).tok)>>)
             ELSE results)

\* the chunk in hand
batch == Chunk(tasks, start, batch_size)

\* expected = {i[0] for i in batch}
expected == {batch[i].ridx : i \in 1..Len(batch)}

\* mutant: the fallback loop stops after the first row of the chunk
NextMissing_FirstOnly(b, d, from) ==
    IF from = 1 /\ Len(b) >= 1 /\ ~HasKey(d, b[1].ridx) THEN 1 ELSE 0

\* the next position p >= from of the chunk whose row is not in the dict
\* (`if ridx not in parsed`), 0 when there is none
RECURSIVE NextMissing(_, _, _)
NextMissing(b, d, from) ==
    IF from > Len(b) THEN 0
    ELSE IF ~HasKey(d, b[from].ridx) THEN from
    ELSE NextMissing(b, d, from + 1)

\* call_openai of the batch script: output text, else the joined pieces,
\* stripped
BatchCallText(resp) ==
    strip(IF resp.text # <<>> THEN resp.text ELSE strip(resp.parts))

\* the write loop `for ridx, label in results.items(): df.iat[ridx, 1] =
\* label` from entry i on; an id beyond the last row raises IndexError and
\* leaves the loop with the writes made so far
RECURSIVE ApplyResults(_, _, _)
ApplyResults(table, d, i) ==
    IF i > Len(d) THEN [df |-> table, ok |-> TRUE]
    ELSE IF d[i][1] \notin DOMAIN table THEN [df |-> table, ok |-> FALSE]
    ELSE ApplyResults(SetCell(table, d[i][1], 1, d[i][2]), d, i + 1)

\* the task collection loop
Collect ==
    /\ script = "batch"
    /\ pc = "collect"
    /\ tasks' = CollectTasks(df, 0)
    /\ pc' = "batches"
    /\ UNCHANGED <<purevars, paused_at, script, df, loaded, saved, prior, pause_every, calls, called, intr,
                   batch_size, start, parsed, fpos, first, fallbacks>>
    /\ UNCHANGED rowvars

\* the batch loop takes the next chunk: classify_batch builds the combined
\* prompt and sends it
StartBatch ==
    /\ script = "batch"
    /\ pc = "batches"
    /\ start < Len(tasks)
    /\ pc' = "bcall"
    /\ UNCHANGED <<purevars, paused_at, script, df, loaded, saved, prior, pause_every, calls, called, intr>>
    /\ UNCHANGED rowvars
    /\ UNCHANGED batchvars

\* the row-local variables the batch script does not use
batchrow == <<idx, col, attempt, wait, processed, rowcalls, fails, err>>

\* after the combined response, or a fallback response, is recorded in dict
\* d: the next missing row's single-row call, or classify_batch returns and
\* the write loop runs, followed by the sleep
Continue(d, from) ==
    IF NextMissing(batch, d, from) # 0
    THEN /\ pc' = "fcall"
         /\ fpos' = NextMissing(batch, d, from)
         /\ parsed' = d
         /\ df' = df
         /\ outcome' = "none"
    ELSE /\ fpos' = 0
         /\ parsed' = d
         /\ df' = ApplyResults(df, d, 1).df
         /\ IF ApplyResults(df, d, 1).ok
            THEN pc' = "bsleep" /\ outcome' = "applied"
            ELSE pc' = "aborted" /\ outcome' = "IndexError"

\* the combined call returns a response text
BatchReturns ==
    /\ script = "batch"
    /\ pc = "bcall"
    /\ calls' = calls + 1
    /\ \E out \in BatchOuts :
        /\ first' = {parse_batch_output(out, <<>>)[i][1] :
                        i \in 1..Len(parse_batch_output(out, <<>>))}
        /\ Continue(parse_batch_output(out, <<>>), 1)
    /\ UNCHANGED <<purevars, paused_at, script, loaded, saved, prior, pause_every, called, intr,
                   batch_size, tasks, start, fallbacks>>
    /\ UNCHANGED batchrow

\* the combined call raises: nothing in classify_batch or the batch loop
\* catches it
BatchRaises ==
    /\ script = "batch"
    /\ pc = "bcall"
    /\ calls' = calls + 1
    /\ pc' = "aborted"
    /\ outcome' = "raised"
    /\ UNCHANGED <<purevars, paused_at, script, df, loaded, saved, prior, pause_every, called, intr>>
    /\ UNCHANGED batchrow
    /\ UNCHANGED batchvars

\* the single-row fallback call of the row at fpos returns
FallbackReturns ==
    /\ script = "batch"
    /\ pc = "fcall"
    /\ calls' = calls + 1
    /\ called' = called \cup {<<batch[fpos].ridx, 0>>}
    /\ fallbacks' = Append(fallbacks, batch[fpos].ridx)
    /\ \E resp \in Responses :
        Continue(DictSet(parsed, batch[fpos].ridx, CleanLabel(BatchCallText(resp))),
                 fpos + 1)
    /\ UNCHANGED <<purevars, paused_at, script, loaded, saved, prior, pause_every, intr,
                   batch_size, tasks, start, first>>
    /\ UNCHANGED batchrow

\* the single-row fallback call of the row at fpos raises: recorded for
\* that row
FallbackRaises ==
    /\ script = "batch"
    /\ pc = "fcall"
    /\ calls' = calls + 1
    /\ called' = called \cup {<<batch[fpos].ridx, 0>>}
    /\ fallbacks' = Append(fallbacks, batch[fpos].ridx)
    /\ \E msg \in MsgsFor(script) :
        Continue(DictSet(parsed, batch[fpos].ridx, ErrorMarker(msg)), fpos + 1)
    /\ UNCHANGED <<purevars, paused_at, script, loaded, saved, prior, pause_every, intr,
                   batch_size, tasks, start, first>>
    /\ UNCHANGED batchrow

\* time.sleep(0.3) ends: on to the next chunk
BatchSleepDone ==
    /\ script = "batch"
    /\ pc = "bsleep"
    /\ start' = start + batch_size
    /\ parsed' = <<>>
    /\ first' = {}
    /\ fallbacks' = <<>>
    /\ outcome' = "none"
    /\ pc' = "batches"
    /\ UNCHANGED <<purevars, paused_at, script, df, loaded, saved, prior, pause_every, calls, called, intr,
                   batch_size, tasks, fpos>>
    /\ UNCHANGED batchrow

\* all chunks are done: the table is written to the output file
SaveBatch ==
    /\ script = "batch"
    /\ pc = "batches"
    /\ start >= Len(tasks)
    /\ saved' = <<df>>
    /\ pc' = "done"
    /\ UNCHANGED <<purevars, paused_at, script, df, loaded, prior, pause_every, calls, called, intr>>
    /\ UNCHANGED rowvars
    /\ UNCHANGED batchvars

BatchNext ==
    \/ Collect
    \/ StartBatch
    \/ BatchReturns
    \/ BatchRaises
    \/ FallbackReturns
    \/ FallbackRaises
    \/ BatchSleepDone
    \/ SaveBatch

RowNext ==
    \/ NextRow
    \/ CallReturns
    \/ CallRaises
    \/ BackoffDone
    \/ PaceDone
    \/ PauseDone
    \/ SaveRows

Next ==
    \/ RowNext
    \/ BatchNext
    \/ Interrupt
    \/ Rerun

Spec == Init /\ [][Next]_vars

\* ---------------------------------------------- label extraction on its own
\* longest text handed to the extractors, in lexemes
MaxText == 3

\* the lexemes of those texts: whitespace, a plain word, labels in lower
\* and in upper case
TextToks == {SP, "q", "ans0", "ans1", "ANS1"}

Texts == UNION { [1..n -> TextToks] : n \in 0..MaxText }

\* extract_labels_from_text of the single-row classifier: the same loop,
\* then `if not ordered: ordered = ["ans0", "ans1", "ans2"]`
extract_labels_from_text(text) ==
    LET ordered == Ordered(findall(text), <<>>)
    IN  IF ordered = <<>> THEN <<"ans0", "ans1", "ans2">> ELSE ordered

\* no run is in progress: the table and the run state are unused
Idle ==
    /\ prior = "none"
    /\ pause_every = 0
    /\ batch_size = 0
    /\ StartRun("none", <<>>)

\* no script is running
NoRun ==
    /\ script = "none"
    /\ Idle
    /\ excel_path = <<>>
    /\ out_path = <<>>

LabelInit ==
    /\ NoRun
    /\ ltext \in Texts
    /\ lret = <<>>

\* extract_labels(ltext) of the batch script is called
ExtractLabels ==
    /\ script = "none"
    /\ "extract_labels" \notin DOMAIN lret
    /\ lret' = lret @@ ("extract_labels" :> extract_labels(ltext))
    /\ UNCHANGED <<ltext, excel_path, out_path, paused_at, script, df, loaded, saved, prior, pc, pause_every, calls,
                   called, intr>>
    /\ UNCHANGED rowvars
    /\ UNCHANGED batchvars

\* extract_labels_from_text(ltext) of the single-row classifier is called
ExtractLabelsFromText ==
    /\ script = "none"
    /\ "extract_labels_from_text" \notin DOMAIN lret
    /\ lret' = lret @@ ("extract_labels_from_text" :> extract_labels_from_text(ltext))
    /\ UNCHANGED <<ltext, excel_path, out_path, paused_at, script, df, loaded, saved, prior, pc, pause_every, calls,
                   called, intr>>
    /\ UNCHANGED rowvars
    /\ UNCHANGED batchvars

LabelNext ==
    \/ ExtractLabels
    \/ ExtractLabelsFromText

LabelSpec == LabelInit /\ [][LabelNext]_vars

\* -------------------------------------------------- output path on its own
\* longest path tried, in lexemes
MaxPath == 3

\* the lexemes of a path: a name, the separator, two workbook extensions
PathToks == {"data", "/", ".xlsx", ".xlsm"}

\* the extensions of the workbooks read_excel(engine="openpyxl") loads
WorkbookExts == {".xlsx", ".xlsm"}

\* the paths tried: a name or directory first, a workbook extension last
Paths ==
    { p \in UNION { [1..n -> PathToks] : n \in 2..MaxPath } :
        p[1] \notin WorkbookExts /\ p[Len(p)] \in WorkbookExts }

\* the fixed suffix of each script: "_with_answers" and so on
Suffix(s) ==
    CASE s \in {"batch", "classify"} -> "_with_results"
      [] s = "translate" -> "_with_translations"
      [] OTHER -> "_with_answers"

\* str.replace(old, new): every occurrence of the lexeme is replaced
RECURSIVE replace(_, _, _)
replace(path, old, new) ==
    IF path = <<>> THEN <<>>
    ELSE (IF Head(path) = old THEN new ELSE <<Head(path)>>)
         \o replace(Tail(path), old, new)

\* out_path = args.excel_path.replace(".xlsx", "_with_<verb>.xlsx")
OutPath(s, path) == replace(path, ".xlsx", <<Suffix(s), ".xlsx">>)

PathInit ==
    /\ script \in Scripts
    /\ Idle
    /\ ltext = <<>>
    /\ lret = <<>>
    /\ excel_path \in Paths
    /\ out_path = <<>>

\* the save step computes the path it writes to
ComputeOutPath ==
    /\ script \in Scripts
    /\ excel_path # <<>>
    /\ out_path = <<>>
    /\ out_path' = OutPath(script, excel_path)
    /\ UNCHANGED <<ltext, lret, excel_path, paused_at, script, df, loaded, saved, prior,
                   pc, pause_every, calls, called, intr>>
    /\ UNCHANGED rowvars
    /\ UNCHANGED batchvars

PathNext == ComputeOutPath

PathSpec == PathInit /\ [][PathNext]_vars

\* ================================================================= claims
\* a cell that is missing or blank after trimming
IsBlankCell(v) == v = NaN \/ strip(v) = <<>>

\* every output cell of the table holds content
AllOutputsFilled(table) ==
    \A p \in Positions(script) : ~IsBlankCell(table[p[1]][ColOut(script, p[2])])

\* the scripts that implement the resume check
Resumable == {"batch", "gemini25", "gemini15", "gpt4o", "ollama", "translate"}

\* C1 - idempotence of the resumable scripts: a run over a table whose
\* output cells all hold content (not missing, not blank after trimming)
\* makes no remote call, changes no cell, and the table it saves is the
\* table it loaded.
C1_Idempotence ==
    (script \in Resumable /\ AllOutputsFilled(loaded)) =>
        /\ calls = 0
        /\ df = loaded
        /\ saved # <<>> => saved[1] = loaded

\* a finished run of a resumable script over a table with all outputs
\* filled and an input that the resume test, not the blank test, skipped
C1_Witness ==
    /\ script \in Resumable
    /\ AllOutputsFilled(loaded)
    /\ pc = "done"
    /\ saved # <<>>
    /\ intr = "none"
    /\ \E p \in Positions(script) : ~IsBlankCell(loaded[p[1]][p[2]])

\* C2 - empty-input skip in the per-row scripts: a position whose input is
\* missing or blank after trimming never gets a remote call, and its output
\* cell keeps its load-time value, in memory and in the saved file.
C2_EmptyInputSkip ==
    script \in RowScripts =>
        \A p \in Positions(script) :
            IsBlankCell(loaded[p[1]][p[2]]) =>
                /\ p \notin called
                /\ df[p[1]][ColOut(script, p[2])] = loaded[p[1]][ColOut(script, p[2])]
                /\ saved # <<>> =>
                      saved[1][p[1]][ColOut(script, p[2])]
                          = loaded[p[1]][ColOut(script, p[2])]

\* a finished run that skipped a whitespace-only input with a blank output
\* and made a remote call for another position
C2_Witness ==
    /\ script \in RowScripts
    /\ pc = "done"
    /\ calls > 0
    /\ \E p \in Positions(script) :
          /\ loaded[p[1]][p[2]] = <<SP>>
          /\ IsBlankCell(loaded[p[1]][ColOut(script, p[2])])

\* C3 - the batch script never overwrites a pre-existing output value: a
\* cell that held content at load time, or belongs to a row with blank
\* input, holds its load-time value in the saved table.
C3_NoOverwrite ==
    (script = "batch" /\ pc = "done") =>
        \A r \in 0..(NRows(script) - 1) :
            (~IsBlankCell(loaded[r][1]) \/ IsBlankCell(loaded[r][0])) =>
                saved[1][r][1] = loaded[r][1]

\* occurrences of x in a sequence
Count(seq, x) == Cardinality({i \in 1..Len(seq) : seq[i] = x})

\* the values dict d holds for key k (none or one)
Entry(d, k) == {d[i][2] : i \in {j \in 1..Len(d) : d[j][1] = k}}

\* C4 - batch fallback completeness: when classify_batch returns, its result
\* has an entry for every row of the chunk; a row missing from the parsed
\* combined response got exactly one single-row call, a row present in it
\* got none; and a fallback call (returning or raising) changes no other
\* row's entry and never ends the run.
C4_FallbackComplete ==
    /\ [](  (script = "batch" /\ outcome \in {"applied", "IndexError"}) =>
            \A i \in 1..Len(batch) :
                /\ HasKey(parsed, batch[i].ridx)
                /\ Count(fallbacks, batch[i].ridx)
                      = (IF batch[i].ridx \in first THEN 0 ELSE 1) )
    /\ [][ (script = "batch" /\ pc = "fcall" /\ intr' = "none") =>
            /\ \A k \in 0..MaxRows :
                  k # batch[fpos].ridx => Entry(parsed', k) = Entry(parsed, k)
            /\ Entry(parsed', batch[fpos].ridx) # {}
            /\ pc' \in {"fcall", "bsleep"} \/ outcome' = "IndexError" ]_vars

\* classify_batch returned for a chunk of two rows, one answered by the
\* combined response and one by a fallback call that raised
C4_Witness ==
    /\ script = "batch"
    /\ outcome = "applied"
    /\ Len(batch) = 2
    /\ Len(fallbacks) = 1
    /\ \E k \in 0..MaxRows : Entry(parsed, k) = {ErrorMarker(<<"boom">>)}
    /\ \E i \in 1..2 : batch[i].ridx \in first

\* C5 - backoff bounds of call_gemini_safe: an answer after N transient
\* failures took exactly N + 1 calls (N below the ceiling); after as many
\* transient failures as the ceiling allows exactly that many calls were
\* made and the exhaustion sentinel is the result; every wait is
\* min(cap, 2^attempt + jitter) with jitter in [0, 1], never above the cap,
\* and never shorter than the wait before it.
C5_BackoffBounds ==
    /\ [](  script = "gemini25" =>
            /\ outcome = "answer" =>
                  /\ rowcalls = fails + 1
                  /\ fails < DefaultRetries
                  /\ df[idx][1] \in {CellFor("gemini25", GeminiSafeText(r)) : r \in Responses}
            /\ outcome = "exhausted" =>
                  /\ rowcalls = DefaultRetries
                  /\ fails = DefaultRetries
                  /\ df[idx][1] = TooManyRetries
            /\ pc = "backoff" =>
                  /\ wait <= BackoffCap * JitterDen
                  /\ rowcalls = attempt + 1
                  /\ \E j \in 0..JitterDen :
                        wait = Min(Pow2(attempt) * JitterDen + j, BackoffCap * JitterDen) )
    /\ [][ (script = "gemini25" /\ pc' = "backoff") => wait' >= wait ]_vars

\* the ceiling was reached: six calls, six waits, the sentinel written
C5_Witness ==
    /\ script = "gemini25"
    /\ outcome = "exhausted"
    /\ rowcalls = DefaultRetries
    /\ df[idx][1] = TooManyRetries

\* C6 - failure isolation in the batch script: an error raised by a remote
\* call (combined or fallback) never ends the run before the later chunks
\* are sent and the table is saved.
C6_FailureIsolation ==
    ~(script = "batch" /\ pc = "aborted" /\ outcome = "raised")

\* C7 (as claimed) - in every per-row script an interrupt during the loop
\* stops the loop and the table with every result so far is saved.
C7_EveryScriptSaves ==
    (script \in RowScripts /\ intr # "none") => (pc = "done" /\ saved = <<df>>)

\* C7 (amended) - in the Gemini 2.5 script an interrupt anywhere in the
\* loop, and in the Gemini 1.5 script an interrupt during a remote call or
\* a pacing sleep, stops the loop and the table with every result written
\* so far is saved.
C7_GeminiSaves ==
    (\/ script = "gemini25" /\ intr # "none"
     \/ script = "gemini15" /\ intr \in {"call", "pace"}) =>
        (pc = "done" /\ saved = <<df>>)

\* Gemini 2.5 interrupted in a backoff sleep of the second row, the first
\* row's result already written and saved
C7_Witness ==
    /\ script = "gemini25"
    /\ intr = "backoff"
    /\ idx = 1
    /\ df[0][1] # loaded[0][1]
    /\ saved = <<df>>

\* C8 - resume correctness: after an uninterrupted first run, a second run
\* over the saved table makes no remote call and changes no cell, whatever
\* text the remote calls of the first run returned.
C8_SecondRunIdle ==
    (script \in Resumable /\ prior = "complete") => (calls = 0 /\ df = loaded)

\* the message carries a safety/blocked marker
HasSafetyMarker(msg) ==
    Contains(lower(msg), "safety") \/ Contains(lower(msg), "blocked")

\* C9 - safety errors are terminal in call_gemini_safe: after an error whose
\* message carries a safety/blocked marker there is no backoff sleep and no
\* further call for the prompt, and '(blocked)' is the result, whatever
\* other markers the message carries.
C9_SafetyTerminal ==
    (script = "gemini25" /\ HasSafetyMarker(err)) =>
        (pc \notin {"backoff", "call"} /\ outcome = "blocked")

\* the message carries none of the markers the wrapper of script s reads
NoMarker(s, msg) ==
    IF s = "gemini25"
    THEN /\ \A m \in {"429", "rate", "quota", "resource exhausted"} :
                ~Contains(lower(msg), m)
         /\ ~HasSafetyMarker(msg)
    ELSE \A m \in {"rate limit", "timeout", "temporar", "try again",
                   "overloaded", "502", "503", "504"} :
                ~Contains(lower(msg), m)

\* C10 - non-transient errors are never retried: in call_gemini_safe and in
\* call_openai_strict_label an error whose message carries no transient (and
\* no safety) marker leaves the wrapper at once: the failing call is the
\* last call for the row, no sleep follows inside the wrapper, and main
\* records the error for the row.
C10_NoRetry ==
    /\ [](  (script \in {"gemini25", "classify"} /\ err # <<>> /\ NoMarker(script, err)) =>
            /\ outcome = "raised"
            /\ pc \notin {"backoff", "call"}
            /\ rowcalls = fails + 1
            /\ df[idx][1] = ErrorMarker(err) )
    /\ [][ (script \in {"gemini25", "classify"} /\ outcome = "raised") =>
            (calls' = calls \/ prior' # prior) ]_vars

\* the single-row classifier got an unrecognised error on the first call
C10_Witness ==
    /\ script = "classify"
    /\ outcome = "raised"
    /\ err = <<"boom">>
    /\ rowcalls = 1
    /\ calls = 1

\* the lower-cased label tokens that occur in a text
LabelsIn(text) == {lowerTok(text[i]) : i \in {j \in 1..Len(text) : IsLabel(text[j])}}

\* where a label first occurs in a text, in any case
FirstAt(text, lab) ==
    CHOOSE i \in 1..Len(text) :
        /\ lowerTok(text[i]) = lab
        /\ \A j \in 1..(i - 1) : lowerTok(text[j]) # lab

\* r lists the labels of the text once each, in first-seen order
IsFirstSeenList(r, text) ==
    /\ {r[i] : i \in 1..Len(r)} = LabelsIn(text)
    /\ Len(r) = Cardinality(LabelsIn(text))
    /\ \A i, j \in 1..Len(r) : i < j => FirstAt(text, r[i]) < FirstAt(text, r[j])

\* C11 - label extraction: each extractor returns the lower-cased
\* 'ans<number>' tokens of the text in first-seen order, none repeated
\* (case-insensitively), and exactly [ans0, ans1, ans2] when the text has no
\* such token; the list is never empty, and extract_labels and
\* extract_labels_from_text return the same list for the same text.
C11_LabelExtraction ==
    /\ \A f \in DOMAIN lret :
          /\ lret[f] # <<>>
          /\ IF LabelsIn(ltext) = {}
             THEN lret[f] = <<"ans0", "ans1", "ans2">>
             ELSE IsFirstSeenList(lret[f], ltext)
    /\ \A f, g \in DOMAIN lret : lret[f] = lret[g]

\* both extractors were called on a text that repeats a label in another
\* case after a second label
C11_Witness ==
    /\ ltext = <<"ANS1", "ans0", "ans1">>
    /\ DOMAIN lret = {"extract_labels", "extract_labels_from_text"}
    /\ lret["extract_labels"] = <<"ans1", "ans0">>
    /\ lret["extract_labels_from_text"] = <<"ans1", "ans0">>

\* the cell holds an error marker: the exhaustion sentinel or 'ERROR: <detail>'
IsErrorMarker(v) ==
    \/ v = <<"ERROR: too many retries due to rate limits">>
    \/ Len(v) >= 2 /\ v[1] = "ERROR:"

\* C12 - errored rows of the Gemini 2.5 script are marked and then treated
\* as answered: after a dispatched row's call exhausted its retries or
\* raised a non-transient error the row's cell holds a non-blank error
\* marker and, unless the run is interrupted, the loop goes on to the next
\* row; in a later run over the saved table a row that holds such a marker
\* gets no remote call and keeps the marker.
C12_ErrorsAnswered ==
    /\ [](  script = "gemini25" =>
            /\ outcome \in {"exhausted", "raised"} =>
                  /\ IsErrorMarker(df[idx][1])
                  /\ ~IsBlankCell(df[idx][1])
                  /\ pc \in {"pace", "pause", "done"}
            /\ prior # "none" =>
                  \A r \in 0..(MaxRows - 1) :
                      IsErrorMarker(loaded[r][1]) =>
                          (<<r, 0>> \notin called /\ df[r][1] = loaded[r][1]) )
    /\ [][ (script = "gemini25" /\ outcome \in {"exhausted", "raised"}
                /\ intr' = "none" /\ prior' = prior) =>
             \/ pc' = "pause" /\ idx' = idx
             \/ pc' = "loop" /\ idx' = idx + 1 ]_vars

\* a second run finished over a table in which the first run left the
\* exhaustion sentinel in one row and a recorded error in the other
C12_Witness ==
    /\ script = "gemini25"
    /\ prior # "none"
    /\ pc = "done"
    /\ loaded[0][1] = <<"ERROR: too many retries due to rate limits">>
    /\ loaded[1][1] = <<"ERROR:", SP, "boom">>
    /\ calls = 0

\* C13 - resume skip in the single-row classifier: a row whose column B
\* holds content at load time gets no remote call and its cell is not
\* written.
C13_ClassifyResumeSkip ==
    script = "classify" =>
        \A r \in 0..(MaxRows - 1) :
            ~IsBlankCell(loaded[r][1]) =>
                (<<r, 0>> \notin called /\ df[r][1] = loaded[r][1])

\* C14 - cancellation only at row boundaries in the Gemini scripts: when
\* the interrupt arrived while the remote call of a row was in flight (or
\* the wrapper slept between two attempts), the wrapper call still ended on
\* its own and the row's output cell was written before the loop stopped.
C14_RowBoundaryOnly ==
    (script \in {"gemini25", "gemini15"} /\ intr \in {"call", "backoff"}) =>
        (outcome # "none" /\ ~IsBlankCell(df[idx][1]))

\* the largest multiple of n the progress counter reached before the row in
\* hand was taken
LastMultiple(n) == ((processed - 1) \div n) * n

\* rows a remote call was made for since the last long pause
DispatchedSincePause == {p \in called : p[1] + 1 > paused_at}

\* C15 - periodic pause of the Gemini 2.5 script with pause_every = N > 0:
\* whenever a remote call is about to be made, the long pause has been
\* taken for the last multiple of N the progress counter reached, and no
\* more than N rows have been dispatched since the last long pause,
\* whatever mix of skipped and dispatched rows came before.
C15_PeriodicPause ==
    (script = "gemini25" /\ pause_every > 0) =>
        /\ pc = "call" => paused_at = LastMultiple(pause_every)
        /\ Cardinality(DispatchedSincePause) <= pause_every

\* the path with the suffix inserted once, directly before the extension
SuffixInserted(path, suffix) ==
    SubSeq(path, 1, Len(path) - 1) \o <<suffix, path[Len(path)]>>

\* C16 - save never touches the input file: the output path the save step
\* computes differs from the input path, and is the input path with the
\* script's '_with_<verb>' suffix inserted once, directly before the
\* extension.
C16_FreshOutputPath ==
    out_path # <<>> =>
        /\ out_path # excel_path
        /\ out_path = SuffixInserted(excel_path, Suffix(script))

\* C17 - constrained label space of the batch script: whatever the run has
\* written into the output cell of a row it dispatched (a collected task) is
\* one of the labels extracted from that row's text or an 'ERROR: ...'
\* marker, whether it came from the combined response or from the
\* single-row fallback response.
C17_ConstrainedLabels ==
    script = "batch" =>
        \A i \in 1..Len(tasks) :
            \/ df[tasks[i].ridx][1] = loaded[tasks[i].ridx][1]
            \/ \E k \in 1..Len(tasks[i].labels) :
                  df[tasks[i].ridx][1] = <<tasks[i].labels[k]>>
            \/ IsErrorMarker(df[tasks[i].ridx][1])

====
